---- MODULE Spec2Model ----
(***************************************************************************)
(* A model of gitsync's loose-object codec (src/src/object.rs) and of the  *)
(* repository skeleton it stores into (src/src/lib.rs).                    *)
(*                                                                         *)
(* Bytes are the integers 0..255 and every byte string (Vec<u8>, String,   *)
(* &[u8]) is a sequence of bytes.                                          *)
(***************************************************************************)
EXTENDS Integers, Sequences, FiniteSets, TLC

(***************************************************************************)
(* Bounds of the model.                                                    *)
(***************************************************************************)
\* longest blob content / stream body drawn as an input
MaxContent == 2
\* most bytes cut off the end of a stored file when it is damaged
MaxCut == 2
\* longest content of a blob of the object store
MaxStoreContent == 1
\* most object files in the object store
MaxFiles == 1
\* most calls on a SplitWrite
MaxCalls == 2

(***************************************************************************)
(* Bytes the code names.                                                   *)
(***************************************************************************)
\* b' ', the delimiter after the type token
SP == 32
\* 0, the delimiter after the length field
NUL == 0

\* "blob", "commit", "tree", "tag" as bytes
StrBlob == <<98, 108, 111, 98>>
StrCommit == <<99, 111, 109, 109, 105, 116>>
StrTree == <<116, 114, 101, 101>>
StrTag == <<116, 97, 103>>

(***************************************************************************)
(* Sequence helpers.                                                       *)
(***************************************************************************)
Take(s, n) == SubSeq(s, 1, n)

Drop(s, n) == SubSeq(s, n + 1, Len(s))

\* all sequences over S of length at most n
RECURSIVE SeqsUpTo(_, _)
SeqsUpTo(S, n) ==
    IF n = 0 THEN {<<>>}
    ELSE LET shorter == SeqsUpTo(S, n - 1)
         IN  shorter \cup {Append(s, b) : s \in {t \in shorter : Len(t) = n - 1}, b \in S}

\* index of the first occurrence of byte b in s at or after position i, 0 if none
RECURSIVE IndexFrom(_, _, _)
IndexFrom(s, b, i) ==
    IF i > Len(s) THEN 0
    ELSE IF s[i] = b THEN i
    ELSE IndexFrom(s, b, i + 1)

(***************************************************************************)
(* Formatting and parsing done by the standard library on behalf of the    *)
(* codec.                                                                  *)
(***************************************************************************)
\* format!("{}", n) for an unsigned integer: its decimal digits
RECURSIVE FmtDecimal(_)
FmtDecimal(n) ==
    IF n < 10 THEN <<48 + n>>
    ELSE Append(FmtDecimal(n \div 10), 48 + (n % 10))

IsDigit(b) == b >= 48 /\ b <= 57

RECURSIVE DigitsValue(_, _)
DigitsValue(s, acc) ==
    IF s = <<>> THEN acc
    ELSE DigitsValue(Tail(s), acc * 10 + (Head(s) - 48))

\* str::parse::<usize>(): an optional '+', then one or more decimal digits.
\* (Length fields of the model stay far below usize::MAX.)
ParseUsize(s) ==
    LET digits == IF s # <<>> /\ Head(s) = 43 THEN Tail(s) ELSE s
    IN  IF digits = <<>> \/ \E i \in 1..Len(digits) : ~IsDigit(digits[i])
        THEN [ok |-> FALSE, val |-> 0]
        ELSE [ok |-> TRUE, val |-> DigitsValue(digits, 0)]

\* str::parse::<i32>(): an optional '+' or '-', then one or more decimal digits
ParseI32(s) ==
    LET signed == s # <<>> /\ Head(s) \in {43, 45}
        digits == IF signed THEN Tail(s) ELSE s
    IN  IF digits = <<>> \/ \E i \in 1..Len(digits) : ~IsDigit(digits[i])
        THEN [ok |-> FALSE, val |-> 0]
        ELSE [ok |-> TRUE,
              val |-> IF signed /\ Head(s) = 45 THEN 0 - DigitsValue(digits, 0)
                      ELSE DigitsValue(digits, 0)]

IsCont(b) == b >= 128 /\ b <= 191

\* String::from_utf8 accepts exactly the well-formed UTF-8 byte strings
RECURSIVE IsUtf8(_)
IsUtf8(s) ==
    IF s = <<>> THEN TRUE
    ELSE LET b == Head(s)
             n == Len(s)
         IN  IF b < 128 THEN IsUtf8(Tail(s))
             ELSE IF b >= 194 /\ b <= 223
                  THEN n >= 2 /\ IsCont(s[2]) /\ IsUtf8(Drop(s, 2))
             ELSE IF b >= 224 /\ b <= 239
                  THEN /\ n >= 3
                       /\ IsCont(s[2]) /\ IsCont(s[3])
                       /\ (b = 224 => s[2] >= 160)
                       /\ (b = 237 => s[2] <= 159)
                       /\ IsUtf8(Drop(s, 3))
             ELSE IF b >= 240 /\ b <= 244
                  THEN /\ n >= 4
                       /\ IsCont(s[2]) /\ IsCont(s[3]) /\ IsCont(s[4])
                       /\ (b = 240 => s[2] >= 144)
                       /\ (b = 244 => s[2] <= 143)
                       /\ IsUtf8(Drop(s, 4))
             ELSE FALSE

\* u8::to_ascii_lowercase over a string, the comparison eq_ignore_ascii_case makes
AsciiLower(s) ==
    [i \in 1..Len(s) |-> IF s[i] >= 65 /\ s[i] <= 90 THEN s[i] + 32 ELSE s[i]]

\* one hex digit, lower case
HexDigit(d) == IF d < 10 THEN 48 + d ELSE 87 + d

\* write!(hash, "{:0>2x}", c): a byte as hex, padded with '0' on the left to width 2
FmtHex2(c) ==
    IF c < 16 THEN <<48, HexDigit(c)>>
    ELSE <<HexDigit(c \div 16), HexDigit(c % 16)>>

(***************************************************************************)
(* flate2's zlib writer and reader.  The stream format is RFC 1950 around  *)
(* RFC 1951 "stored" blocks: a two-byte header, blocks of                  *)
(* <<BFINAL/BTYPE, LEN lo, LEN hi, NLEN lo, NLEN hi>> followed by LEN raw  *)
(* bytes, and the Adler-32 checksum of the raw bytes, big-endian.  A       *)
(* stream of stored blocks is a zlib stream every zlib reader inflates to  *)
(* the same bytes as the Huffman-coded stream of a higher level.           *)
(***************************************************************************)
\* the Adler-32 modulus
AdlerMod == 65521

RECURSIVE AdlerFold(_, _, _)
AdlerFold(s, a, b) ==
    IF s = <<>> THEN <<b \div 256, b % 256, a \div 256, a % 256>>
    ELSE LET a2 == (a + Head(s)) % AdlerMod
         IN  AdlerFold(Tail(s), a2, (b + a2) % AdlerMod)

Adler32(s) == AdlerFold(s, 1, 0)

StoredBlock(data, final) ==
    LET n == Len(data)
    IN  <<IF final THEN 1 ELSE 0, n % 256, n \div 256, 255 - (n % 256), 255 - (n \div 256)>>
        \o data

\* the blocks of a stream whose writer flushes a block every `block` bytes
RECURSIVE StoredBlocks(_, _)
StoredBlocks(raw, block) ==
    IF Len(raw) <= block THEN StoredBlock(raw, TRUE)
    ELSE StoredBlock(Take(raw, block), FALSE) \o StoredBlocks(Drop(raw, block), block)

\* a zlib stream of raw, written `block` bytes to a block
ZlibStream(raw, block) == <<120, 156>> \o StoredBlocks(raw, block) \o Adler32(raw)

\* ZlibEncoder::new(&mut data, comp) ... drop(encoder): everything written to the
\* encoder leaves it as one zlib stream
ZlibEncoder_finish(raw) == ZlibStream(raw, 65535)

\* The reader inflates block by block from position pos.  out: the bytes
\* inflated; end: "eof" at the end of the stream (bytes after the checksum are
\* never read), "truncated" when the input stops inside the stream, "corrupt"
\* when a block header or the checksum is wrong.
RECURSIVE Inflate(_, _, _)
Inflate(w, pos, out) ==
    IF pos + 4 > Len(w) THEN [out |-> out, end |-> "truncated"]
    ELSE LET hdr == w[pos]
             n == w[pos + 1] + 256 * w[pos + 2]
             nn == w[pos + 3] + 256 * w[pos + 4]
             avail == Len(w) - (pos + 4)
         IN  IF (hdr \div 2) % 4 # 0 \/ n + nn # 65535
             THEN [out |-> out, end |-> "corrupt"]
             ELSE IF avail < n
             THEN [out |-> out \o SubSeq(w, pos + 5, Len(w)), end |-> "truncated"]
             ELSE LET out2 == out \o SubSeq(w, pos + 5, pos + 4 + n)
                      next == pos + 5 + n
                  IN  IF hdr % 2 = 0 THEN Inflate(w, next, out2)
                      ELSE IF next + 3 > Len(w) THEN [out |-> out2, end |-> "truncated"]
                      ELSE IF SubSeq(w, next, next + 3) # Adler32(out2)
                      THEN [out |-> out2, end |-> "corrupt"]
                      ELSE [out |-> out2, end |-> "eof"]

InflateStream(w) ==
    IF Len(w) < 2 THEN [out |-> <<>>, end |-> "truncated"]
    ELSE IF w[1] % 16 # 8 \/ w[1] \div 16 > 7 \/ (w[1] * 256 + w[2]) % 31 # 0
            \/ (w[2] \div 32) % 2 = 1
    THEN [out |-> <<>>, end |-> "corrupt"]
    ELSE Inflate(w, 3, <<>>)

\* ZlibDecoder::new(data): what reading the decoder to its end delivers.  out: the
\* bytes read; err: whether the reads end in an io::Error instead of end of stream.
\* A corrupt stream of this size fails in the first read, which delivers nothing.
\* A truncated stream delivers what it holds; whether the reader then reports an
\* error or a plain end of stream depends on the inflate backend (strict).
ZlibDecoder_read(w, strict) ==
    LET r == InflateStream(w)
    IN  CASE r.end = "eof" -> [out |-> r.out, err |-> FALSE]
          [] r.end = "truncated" -> [out |-> r.out, err |-> strict]
          [] OTHER -> [out |-> <<>>, err |-> TRUE]

(***************************************************************************)
(* The sha1 crate's hasher.  Its state is the bytes fed to it; finalize()  *)
(* gives 20 bytes.  The digest function is a stand-in for SHA-1 that, like *)
(* it, depends on every byte and on the position of every byte.            *)
(***************************************************************************)
\* bytes in a SHA-1 digest
DigestBytes == 20

RECURSIVE DigestLane(_, _, _)
DigestLane(s, lane, acc) ==
    IF s = <<>> THEN acc % 256
    ELSE DigestLane(Tail(s), lane, (acc * (2 * lane + 31) + Head(s) + lane) % AdlerMod)

Sha1_finalize(h) == [i \in 1..DigestBytes |-> DigestLane(h, i, Len(h) + i)]

\* for c in hasher.finalize() { write!(hash, "{:0>2x}", c) }
RECURSIVE HexOf(_)
HexOf(bytes) ==
    IF bytes = <<>> THEN <<>>
    ELSE FmtHex2(Head(bytes)) \o HexOf(Tail(bytes))

(***************************************************************************)
(* Object (object.rs:21-27) and the io::Write sinks it is written to.      *)
(***************************************************************************)
Blob(data) == [type |-> "Blob", data |-> data]

Commit == [type |-> "Commit", data |-> <<>>]

Tree == [type |-> "Tree", data |-> <<>>]

Tag == [type |-> "Tag", data |-> <<>>]

NoObject == [type |-> "None", data |-> <<>>]

\* type names as the variants are spelled, with a capital
type_str_Capital(obj) ==
    CASE obj.type = "Blob" -> <<66, 108, 111, 98>>
      [] obj.type = "Commit" -> <<67, 111, 109, 109, 105, 116>>
      [] obj.type = "Tree" -> <<84, 114, 101, 101>>
      [] obj.type = "Tag" -> <<84, 97, 103>>

type_str(obj) ==
    CASE obj.type = "Blob" -> StrBlob
      [] obj.type = "Commit" -> StrCommit
      [] obj.type = "Tree" -> StrTree
      [] obj.type = "Tag" -> StrTag

\* A sink is what it is (kind) and the bytes it holds (buf): a Vec<u8> ("vec"), a
\* ZlibEncoder over a Vec ("zlib", holding the bytes not yet deflated), the Sha1
\* hasher ("sha1"), io::empty() ("empty"), or any other writer ("any").
Sink(kind) == [kind |-> kind, buf |-> <<>>]

\* the sink after it took bytes: io::empty() drops them, the others keep them
SinkTake(sink, bytes) ==
    IF sink.kind = "empty" THEN sink ELSE [sink EXCEPT !.buf = @ \o bytes]

(***************************************************************************)
(* SplitWrite (object.rs:164-189).  w = [a, b] are the two sinks.  ra and  *)
(* rb are what the sinks answer when called with buf: for write the number *)
(* of bytes accepted, or IoErr; for write_all the number of bytes taken,   *)
(* which is Len(buf) when the sink's write_all returns Ok and less when it *)
(* returns Err.  The result carries the sinks afterwards, what the tee     *)
(* returns (ret, and n for Ok(n)) and the sinks called, in order.          *)
(***************************************************************************)
IoErr == -1

\* a write that does not compare what the two sinks accepted
SplitWrite_write_NoCheck(w, buf, ra, rb) ==
    IF ra = IoErr
    THEN [a |-> w.a, b |-> w.b, ret |-> "Err", n |-> 0, calls |-> <<"a">>]
    ELSE IF rb = IoErr
    THEN [a |-> SinkTake(w.a, Take(buf, ra)), b |-> w.b, ret |-> "Err", n |-> 0,
          calls |-> <<"a", "b">>]
    ELSE [a |-> SinkTake(w.a, Take(buf, ra)), b |-> SinkTake(w.b, Take(buf, rb)),
          ret |-> "Ok", n |-> ra, calls |-> <<"a", "b">>]

SplitWrite_write(w, buf, ra, rb) ==
    IF ra = IoErr
    THEN [a |-> w.a, b |-> w.b, ret |-> "Err", n |-> 0, calls |-> <<"a">>]
    ELSE LET a2 == SinkTake(w.a, Take(buf, ra))
         IN  IF rb = IoErr
             THEN [a |-> a2, b |-> w.b, ret |-> "Err", n |-> 0, calls |-> <<"a", "b">>]
             ELSE LET b2 == SinkTake(w.b, Take(buf, rb))
                  IN  IF ra # rb
                      THEN [a |-> a2, b |-> b2, ret |-> "Err", n |-> 0,
                            calls |-> <<"a", "b">>]
                      ELSE [a |-> a2, b |-> b2, ret |-> "Ok", n |-> ra,
                            calls |-> <<"a", "b">>]

\* a write_all that forgets the second sink
SplitWrite_write_all_FirstOnly(w, buf, ra, rb) ==
    [a |-> SinkTake(w.a, Take(buf, ra)), b |-> w.b,
     ret |-> IF ra < Len(buf) THEN "Err" ELSE "Ok", n |-> 0, calls |-> <<"a">>]

SplitWrite_write_all(w, buf, ra, rb) ==
    LET a2 == SinkTake(w.a, Take(buf, ra))
    IN  IF ra < Len(buf)
        THEN [a |-> a2, b |-> w.b, ret |-> "Err", n |-> 0, calls |-> <<"a">>]
        ELSE LET b2 == SinkTake(w.b, Take(buf, rb))
             IN  [a |-> a2, b |-> b2, ret |-> IF rb < Len(buf) THEN "Err" ELSE "Ok",
                  n |-> 0, calls |-> <<"a", "b">>]

(***************************************************************************)
(* Encoding (object.rs:30-93).                                             *)
(***************************************************************************)
\* Object::serialize into a Vec: the body of the object; todo!() panics
serialize(obj) ==
    IF obj.type = "Blob" THEN [kind |-> "Ok", data |-> obj.data]
    ELSE [kind |-> "Panic", data |-> <<>>]

\* a header whose length field is not closed by the NUL
HeaderPieces_NoNul(obj, body) ==
    <<type_str(obj), <<SP>>, FmtDecimal(Len(body)), body>>

\* The pieces serialize_with_header writes, in order.  write!(w, "{} ", t) reaches
\* the writer as write_all(t) and write_all(" "), write!(w, "{}\0", n) as
\* write_all(digits of n) and write_all("\0").
HeaderPieces(obj, body) ==
    <<type_str(obj), <<SP>>, FmtDecimal(Len(body)), <<NUL>>, body>>

\* write_all of the pieces one after the other through the tee; `?` stops at the
\* first failure.  The sinks of the codec (Vec, ZlibEncoder, Sha1, io::empty())
\* take every byte they are given.
RECURSIVE WritePieces(_, _)
WritePieces(w, pieces) ==
    IF pieces = <<>> THEN [a |-> w.a, b |-> w.b, ret |-> "Ok"]
    ELSE LET buf == Head(pieces)
             r == SplitWrite_write_all(w, buf, Len(buf), Len(buf))
         IN  IF r.ret = "Err" THEN [a |-> r.a, b |-> r.b, ret |-> "Err"]
             ELSE WritePieces([a |-> r.a, b |-> r.b], Tail(pieces))

\* serialize_with_header(&self, write): hash is the digest returned, sink the
\* caller's sink afterwards, hashed the bytes the hasher was fed.  For Commit,
\* Tree and Tag the type token is written, then serialize panics.
serialize_with_header(obj, sink) ==
    LET w0 == [a |-> sink, b |-> Sink("sha1")]
        body == serialize(obj)
    IN  IF body.kind = "Panic"
        THEN [kind |-> "Panic", hash |-> <<>>, sink |-> sink, hashed |-> <<>>]
        ELSE LET r == WritePieces(w0, HeaderPieces(obj, body.data))
             IN  [kind |-> r.ret,
                  hash |-> IF r.ret = "Ok" THEN HexOf(Sha1_finalize(r.b.buf)) ELSE <<>>,
                  sink |-> r.a,
                  hashed |-> r.b.buf]

\* serialize_zlib(&self): unwrap() turns an Err into a panic
serialize_zlib(obj) ==
    LET r == serialize_with_header(obj, Sink("zlib"))
    IN  IF r.kind # "Ok" THEN [kind |-> "Panic", hash |-> <<>>, data |-> <<>>]
        ELSE [kind |-> "Ok", hash |-> r.hash, data |-> ZlibEncoder_finish(r.sink.buf)]

\* sha1(&self): the digest alone, the bytes go to io::empty()
sha1(obj) ==
    LET r == serialize_with_header(obj, Sink("empty"))
    IN  IF r.kind # "Ok" THEN [kind |-> "Panic", hash |-> <<>>]
        ELSE [kind |-> "Ok", hash |-> r.hash]

(***************************************************************************)
(* Decoding (object.rs:104-161).  A result is Ok with an object, Err with  *)
(* the failure that was returned (named after the statement that returns   *)
(* it), or Panic when the call does not return.                            *)
(***************************************************************************)
Ok(obj) == [kind |-> "Ok", err |-> "", obj |-> obj]

Err(e) == [kind |-> "Err", err |-> e, obj |-> NoObject]

Panic == [kind |-> "Panic", err |-> "", obj |-> NoObject]

\* a match of the type token that regards case (ignore_case = false)
ObjectType_from_str_CaseSensitive(typ) ==
    CASE typ = StrBlob -> "Blob"
      [] typ = StrCommit -> "Commit"
      [] typ = StrTree -> "Tree"
      [] typ = StrTag -> "Tag"
      [] OTHER -> ""

\* ObjectType::from_str(&typ, true): clap's derived ValueEnum compares the name of
\* each variant with eq_ignore_ascii_case; "" stands for Err
ObjectType_from_str(typ) ==
    LET t == AsciiLower(typ)
    IN  CASE t = StrBlob -> "Blob"
          [] t = StrCommit -> "Commit"
          [] t = StrTree -> "Tree"
          [] t = StrTag -> "Tag"
          [] OTHER -> ""

\* Object::deserialize(typ, data)
deserialize(typ, data) ==
    IF typ = "Blob" THEN Ok(Blob(data)) ELSE Panic

\* BufRead::read_until(delim) on the stream st from position pos: the bytes up to
\* and including the first delim; at the end of the stream the bytes left; an
\* io::Error if the stream fails before a delim is found.
read_until(st, pos, delim) ==
    LET i == IndexFrom(st.out, delim, pos)
    IN  IF i > 0 THEN [ok |-> TRUE, buf |-> SubSeq(st.out, pos, i), next |-> i + 1]
        ELSE IF st.err THEN [ok |-> FALSE, buf |-> <<>>, next |-> pos]
        ELSE [ok |-> TRUE, buf |-> SubSeq(st.out, pos, Len(st.out)),
              next |-> Len(st.out) + 1]

\* a size check that only notices bytes beyond the declared length
size_differs_OnlyLonger(real_size, size) == real_size > size

\* if real_size != size { bail!(..) }
size_differs(real_size, size) == real_size # size

\* the steps of deserialize_zlib on the stream the decoder delivers
deserialize_stream(st) ==
    LET r1 == read_until(st, 1, SP)
    IN  IF ~r1.ok THEN Err("ReadType")
        ELSE IF r1.buf = <<>> \/ r1.buf[Len(r1.buf)] # SP THEN Err("ExpectedSpace")
        ELSE LET typ == Take(r1.buf, Len(r1.buf) - 1)
             IN  IF ~IsUtf8(typ) THEN Err("ParseType")
                 ELSE LET obj_type == ObjectType_from_str(typ)
                      IN  IF obj_type = "" THEN Err("InvalidType")
                          ELSE LET r2 == read_until(st, r1.next, NUL)
                               IN  IF ~r2.ok THEN Err("ReadSize")
                                   ELSE IF r2.buf = <<>> \/ r2.buf[Len(r2.buf)] # NUL
                                   THEN Err("ExpectedNul")
                                   ELSE LET field == Take(r2.buf, Len(r2.buf) - 1)
                                            size == ParseUsize(field)
                                            data == Drop(st.out, r2.next - 1)
                                        IN  IF ~IsUtf8(field) \/ ~size.ok
                                            THEN Err("ParseSize")
                                            ELSE IF st.err THEN Err("ReadData")
                                            ELSE IF size_differs(Len(data), size.val)
                                            THEN Err("SizeMismatch")
                                            ELSE deserialize(obj_type, data)

\* Object::deserialize_zlib(data)
deserialize_zlib(wire, strict) == deserialize_stream(ZlibDecoder_read(wire, strict))

(***************************************************************************)
(* The file system under the worktree.  A path is a sequence of names      *)
(* (byte strings) below the worktree path, <<>> the worktree itself; fs    *)
(* maps each path that exists to its node, a directory or a file with its  *)
(* bytes.  The directory above the worktree exists.                        *)
(***************************************************************************)
\* ".git"
NameGit == <<46, 103, 105, 116>>

\* "branches"
NameBranches == <<98, 114, 97, 110, 99, 104, 101, 115>>

\* "objects"
NameObjects == <<111, 98, 106, 101, 99, 116, 115>>

\* "refs"
NameRefs == <<114, 101, 102, 115>>

\* "heads"
NameHeads == <<104, 101, 97, 100, 115>>

\* "tags"
NameTags == <<116, 97, 103, 115>>

\* "config"
NameConfig == <<99, 111, 110, 102, 105, 103>>

\* "description"
NameDescription == <<100, 101, 115, 99, 114, 105, 112, 116, 105, 111, 110>>

\* "HEAD"
NameHEAD == <<72, 69, 65, 68>>

\* "README"
NameReadme == <<82, 69, 65, 68, 77, 69>>

Dir == [kind |-> "dir", data |-> <<>>]

File(data) == [kind |-> "file", data |-> data]

Exists(fsys, p) == p \in DOMAIN fsys

IsDir(fsys, p) == Exists(fsys, p) /\ fsys[p].kind = "dir"

IsFile(fsys, p) == Exists(fsys, p) /\ fsys[p].kind = "file"

Parent(p) == Take(p, Len(p) - 1)

\* the entries of directory p
Children(fsys, p) ==
    {q \in DOMAIN fsys : Len(q) = Len(p) + 1 /\ Take(q, Len(p)) = p}

\* fs::create_dir_all(p): every missing directory down to p is made; fails when
\* a file is in the way
create_dir_all(fsys, p) ==
    LET chain == {Take(p, k) : k \in 0..Len(p)}
    IN  IF \E q \in chain : IsFile(fsys, q) THEN [ok |-> FALSE, fs |-> fsys]
        ELSE [ok |-> TRUE,
              fs |-> [q \in DOMAIN fsys \cup chain |->
                         IF q \in DOMAIN fsys THEN fsys[q] ELSE Dir]]

\* fs::create_dir(p): p must not exist and its parent must be a directory
create_dir(fsys, p) ==
    IF Exists(fsys, p) \/ (p # <<>> /\ ~IsDir(fsys, Parent(p)))
    THEN [ok |-> FALSE, fs |-> fsys]
    ELSE [ok |-> TRUE, fs |-> (p :> Dir) @@ fsys]

\* OpenOptions: the flags object.rs:84, lib.rs:115 and the tests set
OptsSave == [read |-> FALSE, write |-> TRUE, create |-> TRUE, create_new |-> FALSE,
             truncate |-> FALSE]

OptsCreateNew == [read |-> FALSE, write |-> TRUE, create |-> FALSE, create_new |-> TRUE,
                  truncate |-> FALSE]

OptsRead == [read |-> TRUE, write |-> FALSE, create |-> FALSE, create_new |-> FALSE,
             truncate |-> FALSE]

\* File::create, which Ini::write_to_file opens its file with
OptsFileCreate == [read |-> FALSE, write |-> TRUE, create |-> TRUE, create_new |-> FALSE,
                   truncate |-> TRUE]

\* OpenOptions::open(p): existed tells whether the file was there before.  A file
\* that exists is opened as it is, and emptied only with truncate; a file that
\* does not exist is made (empty) with create or create_new.
OpenOptions_open(fsys, p, opts) ==
    IF IsDir(fsys, p) THEN [ok |-> FALSE, fs |-> fsys, existed |-> TRUE]
    ELSE IF IsFile(fsys, p)
    THEN IF opts.create_new THEN [ok |-> FALSE, fs |-> fsys, existed |-> TRUE]
         ELSE [ok |-> TRUE,
               fs |-> IF opts.truncate THEN [fsys EXCEPT ![p] = File(<<>>)] ELSE fsys,
               existed |-> TRUE]
    ELSE IF (opts.create \/ opts.create_new) /\ p # <<>> /\ IsDir(fsys, Parent(p))
    THEN [ok |-> TRUE, fs |-> (p :> File(<<>>)) @@ fsys, existed |-> FALSE]
    ELSE [ok |-> FALSE, fs |-> fsys, existed |-> FALSE]

\* the bytes of a file after data is written at offset off of it: bytes beyond
\* the written ones stay
WriteAt(old, off, data) ==
    Take(old, off) \o data \o Drop(old, off + Len(data))

\* Write::write_all on a file just opened (offset 0)
File_write_all(fsys, p, data) ==
    [fsys EXCEPT ![p] = File(WriteAt(fsys[p].data, 0, data))]

(***************************************************************************)
(* rust-ini: an Ini is a sequence of sections, each a name and a sequence  *)
(* of properties; on disk a section is "[name]" on a line of its own and a *)
(* property "key=value" on a line of its own.                              *)
(***************************************************************************)
\* "core"
StrCore ==
    <<99, 111, 114, 101>>

\* "repositoryformatversion"
StrVersionKey ==
    <<114, 101, 112, 111, 115, 105, 116, 111, 114, 121, 102, 111, 114, 109,
    97, 116, 118, 101, 114, 115, 105, 111, 110>>

\* "filemode"
StrFilemode ==
    <<102, 105, 108, 101, 109, 111, 100, 101>>

\* "bare"
StrBare ==
    <<98, 97, 114, 101>>

\* "false"
StrFalse ==
    <<102, 97, 108, 115, 101>>

\* '\n'
LF == 10

Prop(k, v) == [key |-> k, val |-> v]

\* a default config of format version 1
default_config_V1 ==
    << [name |-> StrCore,
        props |-> <<Prop(StrVersionKey, <<49>>), Prop(StrFilemode, StrFalse),
                    Prop(StrBare, StrFalse)>>] >>

\* Repository::default_config()
default_config ==
    << [name |-> StrCore,
        props |-> <<Prop(StrVersionKey, <<48>>), Prop(StrFilemode, StrFalse),
                    Prop(StrBare, StrFalse)>>] >>

RECURSIVE Ini_write_props(_)
Ini_write_props(props) ==
    IF props = <<>> THEN <<>>
    ELSE Head(props).key \o <<61>> \o Head(props).val \o <<LF>>
         \o Ini_write_props(Tail(props))

\* Ini::write_to_file: the text written, a blank line between sections
RECURSIVE Ini_write(_, _)
Ini_write(ini, first) ==
    IF ini = <<>> THEN <<>>
    ELSE (IF first THEN <<>> ELSE <<LF>>)
         \o <<91>> \o Head(ini).name \o <<93, LF>>
         \o Ini_write_props(Head(ini).props)
         \o Ini_write(Tail(ini), FALSE)

IsBlank(b) == b \in {SP, 9, 13}

RECURSIVE TrimLeft(_)
TrimLeft(s) == IF s # <<>> /\ IsBlank(Head(s)) THEN TrimLeft(Tail(s)) ELSE s

RECURSIVE TrimRight(_)
TrimRight(s) ==
    IF s # <<>> /\ IsBlank(s[Len(s)]) THEN TrimRight(Take(s, Len(s) - 1)) ELSE s

Trim(s) == TrimRight(TrimLeft(s))

\* the lines of a text
RECURSIVE SplitLines(_)
SplitLines(text) ==
    LET i == IndexFrom(text, LF, 1)
    IN  IF text = <<>> THEN <<>>
        ELSE IF i = 0 THEN <<text>>
        ELSE <<Take(text, i - 1)>> \o SplitLines(Drop(text, i))

\* The parser, line by line: ini is what was read so far.  A blank line is
\* skipped, "[name]" opens a section, "key=value" adds a property to the open
\* section (to a section without a name before the first "[...]"), anything else
\* is a parse error.
RECURSIVE Ini_parse(_, _)
Ini_parse(lines, ini) ==
    IF lines = <<>> THEN [ok |-> TRUE, ini |-> ini]
    ELSE LET line == Trim(Head(lines))
             eq == IndexFrom(line, 61, 1)
         IN  IF line = <<>> THEN Ini_parse(Tail(lines), ini)
             ELSE IF line[1] = 91
             THEN IF line[Len(line)] # 93 THEN [ok |-> FALSE, ini |-> <<>>]
                  ELSE Ini_parse(Tail(lines),
                          Append(ini, [name |-> Trim(SubSeq(line, 2, Len(line) - 1)),
                                       props |-> <<>>]))
             ELSE IF eq <= 1 THEN [ok |-> FALSE, ini |-> <<>>]
             ELSE LET prop == Prop(Trim(Take(line, eq - 1)), Trim(Drop(line, eq)))
                      open == IF ini = <<>> THEN <<[name |-> <<>>, props |-> <<>>]>>
                              ELSE ini
                      n == Len(open)
                  IN  Ini_parse(Tail(lines),
                          [open EXCEPT ![n].props = Append(@, prop)])

\* Ini::load_from_file(path)
Ini_load_from_file(fsys, p) ==
    IF ~IsFile(fsys, p) THEN [ok |-> FALSE, ini |-> <<>>]
    ELSE Ini_parse(SplitLines(fsys[p].data), <<>>)

\* ini.section(Some(name)): the first section of that name
Ini_section(ini, name) ==
    LET hits == {i \in 1..Len(ini) : ini[i].name = name}
    IN  IF hits = {} THEN [found |-> FALSE, props |-> <<>>]
        ELSE [found |-> TRUE,
              props |-> ini[CHOOSE i \in hits : \A k \in hits : i <= k].props]

\* properties.get(key): the first value of that key
Props_get(props, key) ==
    LET hits == {i \in 1..Len(props) : props[i].key = key}
    IN  IF hits = {} THEN [found |-> FALSE, val |-> <<>>]
        ELSE [found |-> TRUE,
              val |-> props[CHOOSE i \in hits : \A k \in hits : i <= k].val]

(***************************************************************************)
(* Repository (lib.rs:32-207).  The worktree path is <<>>, the git         *)
(* directory <<".git">>.                                                   *)
(***************************************************************************)
GitDir == <<NameGit>>

\* Repository::path(rel)
Repository_path(rel) == GitDir \o rel

\* Repository::dir(path, mkdir)
Repository_dir(fsys, rel, mkdir) ==
    LET p == Repository_path(rel)
    IN  IF Exists(fsys, p)
        THEN [ok |-> IsDir(fsys, p), fs |-> fsys]
        ELSE IF mkdir THEN create_dir_all(fsys, p)
        ELSE [ok |-> FALSE, fs |-> fsys]

\* Repository::file(path, open_opts, create_parent)
Repository_file(fsys, rel, opts, create_parent) ==
    LET p == Repository_path(rel)
        made == IF create_parent THEN create_dir_all(fsys, Parent(p))
                ELSE [ok |-> TRUE, fs |-> fsys]
    IN  IF ~made.ok THEN [ok |-> FALSE, fs |-> made.fs, existed |-> FALSE]
        ELSE OpenOptions_open(made.fs, p, opts)

\* Repository::new(path): "Ok", or the failure returned
Repository_new(fsys) ==
    IF ~Exists(fsys, <<>>) THEN "NoWorktree"
    ELSE IF ~Exists(fsys, GitDir) THEN "NoGitDir"
    ELSE LET loaded == Ini_load_from_file(fsys, Repository_path(<<NameConfig>>))
             core == Ini_section(loaded.ini, StrCore)
             version == Props_get(core.props, StrVersionKey)
             number == ParseI32(version.val)
         IN  IF ~loaded.ok THEN "LoadConfig"
             ELSE IF ~core.found THEN "NoCoreSection"
             ELSE IF ~version.found THEN "NoFormatVersion"
             ELSE IF ~number.ok THEN "ParseFormatVersion"
             ELSE IF number.val # 0 THEN "InvalidFormat"
             ELSE "Ok"

\* lib.rs:120
TextDescription ==
    <<85, 110, 110, 97, 109, 101, 100, 32, 114, 101, 112, 111, 115, 105, 116,
    111, 114, 121, 59, 32, 101, 100, 105, 116, 32, 116, 104, 105, 115, 32,
    102, 105, 108, 101, 32, 39, 100, 101, 115, 99, 114, 105, 112, 116, 105,
    111, 110, 39, 32, 116, 111, 32, 110, 97, 109, 101, 32, 116, 104, 101, 32,
    114, 101, 112, 111, 115, 105, 116, 111, 114, 121, 46>>

\* lib.rs:127
TextHead ==
    <<114, 101, 102, 58, 32, 114, 101, 102, 115, 47, 104, 101, 97, 100, 115,
    47, 109, 97, 105, 110>>

\* writeln!(repo.file(rel, create_new + write, true)?, text)?
WriteNewFile(fsys, rel, text) ==
    LET opened == Repository_file(fsys, rel, OptsCreateNew, TRUE)
    IN  IF ~opened.ok THEN [ok |-> FALSE, fs |-> opened.fs]
        ELSE [ok |-> TRUE,
              fs |-> File_write_all(opened.fs, Repository_path(rel), text \o <<LF>>)]

\* repo.config().write_to_file(repo.path("config"))
WriteConfig(fsys, ini) ==
    LET opened == OpenOptions_open(fsys, Repository_path(<<NameConfig>>), OptsFileCreate)
    IN  IF ~opened.ok THEN [ok |-> FALSE, fs |-> opened.fs]
        ELSE [ok |-> TRUE,
              fs |-> File_write_all(opened.fs, Repository_path(<<NameConfig>>),
                                    Ini_write(ini, TRUE))]

\* the four repo.dir(.., true) calls of create_at, stopping at the first failure
RECURSIVE MakeDirs(_, _)
MakeDirs(fsys, rels) ==
    IF rels = <<>> THEN [ok |-> TRUE, fs |-> fsys]
    ELSE LET made == Repository_dir(fsys, Head(rels), TRUE)
         IN  IF ~made.ok THEN made ELSE MakeDirs(made.fs, Tail(rels))

SkeletonDirs ==
    <<<<NameBranches>>, <<NameObjects>>, <<NameRefs, NameHeads>>, <<NameRefs, NameTags>>>>

\* create_at after the check that no repository is there: the git directory, the
\* skeleton directories, config, description and HEAD
create_skeleton(fsys) ==
    LET git == IF Exists(fsys, GitDir) THEN [ok |-> TRUE, fs |-> fsys]
               ELSE create_dir(fsys, GitDir)
        dirs == MakeDirs(git.fs, SkeletonDirs)
        conf == WriteConfig(dirs.fs, default_config)
        desc == WriteNewFile(conf.fs, <<NameDescription>>, TextDescription)
        head == WriteNewFile(desc.fs, <<NameHEAD>>, TextHead)
    IN  IF ~git.ok THEN [ret |-> "CreateGitDir", fs |-> git.fs]
        ELSE IF ~dirs.ok THEN [ret |-> "CreateDir", fs |-> dirs.fs]
        ELSE IF ~conf.ok THEN [ret |-> "WriteConfig", fs |-> conf.fs]
        ELSE IF ~desc.ok THEN [ret |-> "Description", fs |-> desc.fs]
        ELSE IF ~head.ok THEN [ret |-> "Head", fs |-> head.fs]
        ELSE [ret |-> "Ok", fs |-> head.fs]

\* Repository::create_at(path): ret is "Ok" or the failure returned, fs the file
\* system afterwards
Repository_create_at(fsys) ==
    IF Exists(fsys, <<>>)
    THEN IF ~IsDir(fsys, <<>>) THEN [ret |-> "NotADirectory", fs |-> fsys]
         ELSE IF Exists(fsys, GitDir) /\ ~IsDir(fsys, GitDir)
         THEN [ret |-> "OpenGitDir", fs |-> fsys]
         ELSE IF Exists(fsys, GitDir) /\ Children(fsys, GitDir) # {}
         THEN [ret |-> "NotEmpty", fs |-> fsys]
         ELSE create_skeleton(fsys)
    ELSE LET made == create_dir_all(fsys, <<>>)
         IN  IF ~made.ok THEN [ret |-> "CreateWorkdir", fs |-> made.fs]
             ELSE create_skeleton(made.fs)

(***************************************************************************)
(* The object store (object.rs:79-89).                                     *)
(***************************************************************************)
\* Repository::sha1_to_object(sha1): objects/<2 hex digits>/<the other 38>
sha1_to_object(hash) == <<NameObjects, Take(hash, 2), Drop(hash, 2)>>

\* Object::save(&self, repo): ret is what is returned, fs the file system
\* afterwards, existed whether the object file was there when it was opened
save(o, fsys) ==
    LET z == serialize_zlib(o)
        path == sha1_to_object(z.hash)
        opened == Repository_file(fsys, path, OptsSave, TRUE)
    IN  IF z.kind # "Ok"
        THEN [ret |-> [kind |-> "Panic", hash |-> <<>>], fs |-> fsys, existed |-> FALSE]
        ELSE IF ~opened.ok
        THEN [ret |-> [kind |-> "Err", hash |-> <<>>], fs |-> opened.fs,
              existed |-> opened.existed]
        ELSE [ret |-> [kind |-> "Ok", hash |-> z.hash],
              fs |-> File_write_all(opened.fs, Repository_path(path), z.data),
              existed |-> opened.existed]

\* repo.file(path, read, false) and Object::deserialize_zlib_read(file)
read_object(fsys, hash, strict) ==
    LET path == sha1_to_object(hash)
        opened == Repository_file(fsys, path, OptsRead, FALSE)
    IN  IF ~opened.ok THEN Err("Open")
        ELSE deserialize_zlib(fsys[Repository_path(path)].data, strict)

(***************************************************************************)
(* The state.                                                              *)
(***************************************************************************)
VARIABLES
    pc,         \* where the run is: "input", "wire", "decoded", ... for the codec,
                \* "start", "created", "opened" for the repository, "store", "tee"
    obj,        \* the Object the caller holds
    enc,        \* what serialize_with_header returned inside serialize_zlib
    zret,       \* what serialize_zlib returned
    digest,     \* what sha1() returned
    delivered,  \* the stream the ZlibDecoder delivered to deserialize_zlib
    result,     \* what deserialize_zlib returned
    src,        \* "object": an Object is encoded; "stored": a stored stream is read
    inp,        \* the parts a stored stream was written from (src = "stored")
    wire,       \* the compressed bytes: serialize_zlib's Vec, or a stored file
    damaged,    \* whether the compressed bytes were cut or extended after writing
    reenc,      \* what serialize_with_header returned for the decoded object
    fs,         \* the file system under the worktree path
    fs0,        \* the file system the run started with
    cret,       \* what Repository::create_at returned
    nret,       \* what Repository::new returned
    sret,       \* what save returned
    existed,    \* whether a save found its object file existing when it opened it
    tw,         \* the two sinks of a SplitWrite
    tlast,      \* the last call on the SplitWrite and what came of it
    tok,        \* whether every call on the SplitWrite so far returned Ok
    tn,         \* the number of calls on the SplitWrite so far
    savers      \* where each concurrent caller of save is in its call

objVars == <<obj, enc, zret, digest, delivered, result>>

codecVars == <<src, inp, wire, damaged, reenc>>

fsVars == <<fs, fs0>>

repoVars == <<cret, nret>>

storeVars == <<sret, existed, savers>>

teeVars == <<tw, tlast, tok, tn>>

vars == <<pc, objVars, codecVars, fsVars, repoVars, storeVars, teeVars>>

(***************************************************************************)
(* Inputs.                                                                 *)
(***************************************************************************)
\* bytes of blob contents: NUL, space and a letter
ContentBytes == {NUL, SP, 97}

Contents == SeqsUpTo(ContentBytes, MaxContent)

Objects == {Blob(c) : c \in Contents} \cup {Commit, Tree, Tag}

\* Type tokens of stored streams; type is the variant a case-insensitive match
\* with the four names gives, "" for a token that is none of them.
Tokens ==
    { [text |-> StrBlob, type |-> "Blob"],
      [text |-> <<66, 76, 79, 66>>, type |-> "Blob"],
      [text |-> StrCommit, type |-> "Commit"],
      [text |-> StrTree, type |-> "Tree"],
      [text |-> <<84, 97, 103>>, type |-> "Tag"],
      [text |-> <<98, 108, 111>>, type |-> ""],
      [text |-> <<>>, type |-> ""],
      [text |-> <<255>>, type |-> ""] }

\* Length fields of stored streams; val is the length the field declares, -1 for
\* a field that is no decimal number.
Fields ==
    { [text |-> FmtDecimal(n), val |-> n] : n \in 0..(MaxContent + 1) }
    \cup { [text |-> <<43, 49>>, val |-> 1],
           [text |-> <<48, 49>>, val |-> 1],
           [text |-> <<45, 49>>, val |-> -1],
           [text |-> <<>>, val |-> -1],
           [text |-> <<49, 120>>, val |-> -1] }

Inputs == [token : Tokens, sp : BOOLEAN, field : Fields, nul : BOOLEAN, body : Contents]

NoInput == [token |-> [text |-> <<>>, type |-> ""], sp |-> FALSE,
            field |-> [text |-> <<>>, val |-> -1], nul |-> FALSE, body |-> <<>>]

\* the bytes a writer deflates for the parts
RawOf(i) ==
    i.token.text \o (IF i.sp THEN <<SP>> ELSE <<>>) \o i.field.text
    \o (IF i.nul THEN <<NUL>> ELSE <<>>) \o i.body

\* block sizes of the writers of stored files: one block, or a block a byte
BlockSizes == {65535, 1}

NoEnc == [kind |-> "None", hash |-> <<>>, sink |-> Sink("vec"), hashed |-> <<>>]

NoZret == [kind |-> "None", hash |-> <<>>, data |-> <<>>]

NoDigest == [kind |-> "None", hash |-> <<>>]

NoStream == [out |-> <<>>, err |-> FALSE]

NoResult == [kind |-> "None", err |-> "", obj |-> NoObject]

NoCall == [op |-> "none", buf |-> <<>>, ra |-> 0, rb |-> 0, ret |-> "", n |-> 0,
           calls |-> <<>>]

\* the callers that save into one store at the same time
Savers == {"s1", "s2"}

\* a caller that has not called save; at is its position in the call, off the
\* offset of its open file, z what serialize_zlib returned to it
NoSaver == [at |-> "idle", off |-> 0, z |-> NoZret]

NoSavers == [s \in Savers |-> NoSaver]

\* the variables a run does not use
ObjIdle ==
    /\ obj = NoObject /\ enc = NoEnc /\ zret = NoZret /\ digest = NoDigest
    /\ delivered = NoStream /\ result = NoResult

CodecIdle ==
    src = "object" /\ inp = NoInput /\ wire = <<>> /\ damaged = FALSE /\ reenc = NoEnc

FsIdle == fs = <<>> /\ fs0 = <<>>

RepoIdle == cret = "None" /\ nret = "None"

StoreIdle == sret = NoDigest /\ existed = FALSE /\ savers = NoSavers

TeeIdle ==
    /\ tw = [a |-> Sink("any"), b |-> Sink("any")]
    /\ tlast = NoCall /\ tok = TRUE /\ tn = 0

(***************************************************************************)
(* The codec, run on one input.                                            *)
(***************************************************************************)
CodecInit ==
    /\ pc = "input"
    /\ \/ src = "object" /\ obj \in Objects /\ inp = NoInput
       \/ src = "stored" /\ obj = NoObject /\ inp \in Inputs
    /\ wire = <<>> /\ damaged = FALSE /\ reenc = NoEnc
    /\ enc = NoEnc /\ zret = NoZret /\ digest = NoDigest
    /\ delivered = NoStream /\ result = NoResult
    /\ FsIdle /\ RepoIdle /\ StoreIdle /\ TeeIdle

\* obj.serialize_zlib()
SerializeZlib ==
    /\ pc = "input" /\ src = "object"
    /\ enc' = serialize_with_header(obj, Sink("zlib"))
    /\ zret' = serialize_zlib(obj)
    /\ wire' = zret'.data
    /\ pc' = IF zret'.kind = "Ok" THEN "wire" ELSE "panicked"
    /\ UNCHANGED <<obj, digest, delivered, result, src, inp, damaged, reenc>>
    /\ UNCHANGED <<fsVars, repoVars, storeVars, teeVars>>

\* a stored file written by some writer of the object store
StoredFile ==
    /\ pc = "input" /\ src = "stored"
    /\ \E block \in BlockSizes : wire' = ZlibStream(RawOf(inp), block)
    /\ pc' = "wire"
    /\ UNCHANGED <<objVars, src, inp, damaged, reenc>>
    /\ UNCHANGED <<fsVars, repoVars, storeVars, teeVars>>

\* the file loses its last bytes
Truncate ==
    /\ pc = "wire" /\ ~damaged
    /\ \E k \in 1..MaxCut : k <= Len(wire) /\ wire' = Take(wire, Len(wire) - k)
    /\ damaged' = TRUE
    /\ UNCHANGED <<pc, objVars, src, inp, reenc>>
    /\ UNCHANGED <<fsVars, repoVars, storeVars, teeVars>>

\* bytes follow the zlib stream in the file
Trailing ==
    /\ pc = "wire" /\ ~damaged
    /\ wire' = Append(wire, NUL)
    /\ damaged' = TRUE
    /\ UNCHANGED <<pc, objVars, src, inp, reenc>>
    /\ UNCHANGED <<fsVars, repoVars, storeVars, teeVars>>

\* Object::deserialize_zlib(wire)
DeserializeZlib ==
    /\ pc = "wire"
    /\ \E strict \in BOOLEAN :
          /\ delivered' = ZlibDecoder_read(wire, strict)
          /\ result' = deserialize_zlib(wire, strict)
    /\ pc' = "decoded"
    /\ UNCHANGED <<obj, enc, zret, digest, codecVars>>
    /\ UNCHANGED <<fsVars, repoVars, storeVars, teeVars>>

\* obj.serialize_with_header(&mut Vec) on the decoded object
Reserialize ==
    /\ pc = "decoded" /\ result.kind = "Ok"
    /\ reenc' = serialize_with_header(result.obj, Sink("vec"))
    /\ pc' = "reencoded"
    /\ UNCHANGED <<objVars, src, inp, wire, damaged>>
    /\ UNCHANGED <<fsVars, repoVars, storeVars, teeVars>>

CodecNext ==
    \/ SerializeZlib
    \/ StoredFile
    \/ Truncate
    \/ Trailing
    \/ DeserializeZlib
    \/ Reserialize

Spec == CodecInit /\ [][CodecNext]_vars

(***************************************************************************)
(* What the claims speak of.                                               *)
(***************************************************************************)
\* a decode has run on bytes exactly as a writer left them
DecodedIntact == pc \in {"decoded", "reencoded"} /\ ~damaged

\* a decode has run on a stored stream that holds a type token and its space
DecodedStored == DecodedIntact /\ src = "stored" /\ inp.sp

\* ... and a length field and its NUL
WellFramed == DecodedStored /\ inp.token.type # "" /\ inp.nul /\ inp.field.val >= 0

\* "<type> <len>\0<content>" for an object
CanonicalBytes(o) ==
    type_str(o) \o <<SP>> \o FmtDecimal(Len(o.data)) \o <<NUL>> \o o.data

\* C1: decoding the bytes serialize_zlib produced for Blob{content} succeeds and
\* returns a Blob whose data is content, for every content (empty, with NUL, with
\* space).
C1_RoundTrip ==
    (DecodedIntact /\ src = "object") => result = Ok(Blob(obj.data))

C1_Witness ==
    /\ DecodedIntact /\ src = "object"
    /\ obj = Blob(<<NUL, SP>>)
    /\ result.kind = "Ok"

\* C3: when the stream holds a well-formed header, a count of content bytes
\* after the NUL that differs from the declared length gives the size-mismatch
\* error; and whatever the stream, a Blob is returned only if the bytes the
\* decoder delivered after the NUL are as many as the length declared.
C3_SizeMismatch ==
    /\ (WellFramed /\ Len(inp.body) # inp.field.val) => result = Err("SizeMismatch")
    /\ (pc \in {"decoded", "reencoded"} /\ result.kind = "Ok") =>
          LET s == delivered.out
              i == IndexFrom(s, SP, 1)
              j == IndexFrom(s, NUL, i + 1)
          IN  /\ i > 0 /\ j > 0
              /\ result.obj.type = "Blob"
              /\ result.obj.data = Drop(s, j)
              /\ ParseUsize(SubSeq(s, i + 1, j - 1)) = [ok |-> TRUE, val |-> Len(s) - j]

C3_Witness ==
    /\ WellFramed
    /\ inp.token.type = "Blob"
    /\ Len(inp.body) < inp.field.val
    /\ result = Err("SizeMismatch")

\* the failures that reject the type token: it is no UTF-8 text (object.rs:120),
\* or it is none of the four names (object.rs:123)
UnknownTypeErrors == {Err("ParseType"), Err("InvalidType")}

\* C4: the token before the first space is matched against blob, commit, tree
\* and tag without regard to case; a token outside that set is rejected with the
\* unknown-type failure whatever follows it (length field, NUL, content), and a
\* token of the set is never rejected that way.
C4_UnknownType ==
    DecodedStored =>
        /\ inp.token.type = "" => result \in UnknownTypeErrors
        /\ inp.token.type # "" => result \notin UnknownTypeErrors
        /\ result.kind = "Ok" => result.obj.type = inp.token.type

C4_Witness ==
    /\ DecodedStored
    /\ inp.token.type = ""
    /\ inp.field.val = -1
    /\ ~inp.nul
    /\ result = Err("InvalidType")

\* C5: decoding a well-framed commit, tree or tag (declared length = actual
\* length) returns an error value to the caller; the call never fails to return.
C5_UnimplementedReturned ==
    (WellFramed /\ inp.token.type # "Blob" /\ Len(inp.body) = inp.field.val) =>
        result.kind = "Err"

\* C9 as claimed: whenever deserialize_zlib succeeds, serialize_with_header of the
\* decoded object writes exactly the decompressed stored bytes and returns the
\* digest of those bytes, under which the object is stored.
C9_Reencode_Original ==
    pc = "reencoded" =>
        /\ reenc.kind = "Ok"
        /\ reenc.sink.buf = delivered.out
        /\ reenc.hash = HexOf(Sha1_finalize(delivered.out))

\* the stored header is written the canonical way: the type name in lower case,
\* the length in decimal without sign or leading zero
CanonicalHeader(s) ==
    LET i == IndexFrom(s, SP, 1)
        j == IndexFrom(s, NUL, i + 1)
        typ == SubSeq(s, 1, i - 1)
        field == SubSeq(s, i + 1, j - 1)
    IN  /\ i > 0 /\ j > 0
        /\ typ = AsciiLower(typ)
        /\ field # <<>>
        /\ \A k \in 1..Len(field) : IsDigit(field[k])
        /\ (Len(field) > 1 => field[1] # 48)

\* C9: whenever deserialize_zlib succeeds on a stream whose header is written the
\* canonical way, serialize_with_header of the decoded object writes exactly the
\* decompressed stored bytes and returns the digest of those bytes.
C9_Reencode ==
    (pc = "reencoded" /\ CanonicalHeader(delivered.out)) =>
        /\ reenc.kind = "Ok"
        /\ reenc.sink.buf = delivered.out
        /\ reenc.hash = HexOf(Sha1_finalize(delivered.out))

C9_Witness ==
    /\ pc = "reencoded" /\ src = "stored"
    /\ CanonicalHeader(delivered.out)
    /\ inp.body = <<97, NUL>>
    /\ reenc.sink.buf = RawOf(inp)

(***************************************************************************)
(* Creating and opening a repository.                                      *)
(***************************************************************************)
\* the config git init writes: format version 0
ConfigGit ==
    <<91, 99, 111, 114, 101, 93, 10, 9, 114, 101, 112, 111, 115, 105, 116,
    111, 114, 121, 102, 111, 114, 109, 97, 116, 118, 101, 114, 115, 105, 111,
    110, 32, 61, 32, 48, 10, 9, 98, 97, 114, 101, 32, 61, 32, 102, 97, 108,
    115, 101, 10>>

\* format version 1
ConfigV1 ==
    <<91, 99, 111, 114, 101, 93, 10, 114, 101, 112, 111, 115, 105, 116, 111,
    114, 121, 102, 111, 114, 109, 97, 116, 118, 101, 114, 115, 105, 111, 110,
    61, 49, 10>>

\* no core section
ConfigNoCore ==
    <<91, 117, 115, 101, 114, 93, 10, 110, 97, 109, 101, 61, 97, 10>>

\* a core section without the format version
ConfigNoKey ==
    <<91, 99, 111, 114, 101, 93, 10, 98, 97, 114, 101, 61, 102, 97, 108, 115,
    101, 10>>

\* a format version that is no number
ConfigNaN ==
    <<91, 99, 111, 114, 101, 93, 10, 114, 101, 112, 111, 115, 105, 116, 111,
    114, 121, 102, 111, 114, 109, 97, 116, 118, 101, 114, 115, 105, 111, 110,
    61, 120, 10>>

\* no ini text
ConfigJunk ==
    <<99, 111, 114, 101, 10>>

ConfigTexts == {ConfigGit, ConfigV1, ConfigNoCore, ConfigNoKey, ConfigNaN, ConfigJunk}

One(p, node) == p :> node

Nothing == <<>>

\* no node at a path
Absent == [kind |-> "absent", data |-> <<>>]

At(p, node) == IF node = Absent THEN Nothing ELSE One(p, node)

\* what a git directory may hold before the run
GitContents ==
    { At(Repository_path(<<NameConfig>>), config)
      @@ At(Repository_path(<<NameHEAD>>), head)
      @@ At(Repository_path(<<NameObjects>>), objects)
      : config \in {File(t) : t \in ConfigTexts} \cup {Absent, Dir},
        head \in {Absent, File(TextHead \o <<LF>>)},
        objects \in {Absent, Dir, File(<<>>)} }

\* the worktree path before the run: absent, a file, or a directory, with or
\* without a file of its own, where .git is absent, a file, or a directory
InitialTrees ==
    {Nothing, One(<<>>, File(<<>>))}
    \cup { One(<<>>, Dir)
           @@ (IF readme THEN One(<<NameReadme>>, File(<<>>)) ELSE Nothing)
           @@ git
           : readme \in BOOLEAN,
             git \in {Nothing, One(GitDir, File(<<>>))}
                     \cup {One(GitDir, Dir) @@ g : g \in GitContents} }

RepoInit ==
    /\ pc = "start"
    /\ fs \in InitialTrees
    /\ fs0 = fs
    /\ cret = "None" /\ nret = "None"
    /\ ObjIdle /\ CodecIdle /\ StoreIdle /\ TeeIdle

\* Repository::create_at(path)
CreateAt ==
    /\ pc = "start"
    /\ LET r == Repository_create_at(fs)
       IN  fs' = r.fs /\ cret' = r.ret
    /\ pc' = "created"
    /\ UNCHANGED <<fs0, nret, objVars, codecVars, storeVars, teeVars>>

\* Repository::new(path)
New ==
    /\ pc \in {"start", "created"}
    /\ nret' = Repository_new(fs)
    /\ pc' = "opened"
    /\ UNCHANGED <<fs, fs0, cret, objVars, codecVars, storeVars, teeVars>>

RepoNext ==
    \/ CreateAt
    \/ New

SpecRepo == RepoInit /\ [][RepoNext]_vars

\* the path is absent, or a directory whose .git is absent or an empty directory
Creatable(fsys) ==
    \/ ~Exists(fsys, <<>>)
    \/ /\ IsDir(fsys, <<>>)
       /\ \/ ~Exists(fsys, GitDir)
          \/ IsDir(fsys, GitDir) /\ Children(fsys, GitDir) = {}

\* the metadata directory holds the skeleton
Layout(fsys) ==
    /\ IsDir(fsys, <<NameGit, NameBranches>>)
    /\ IsDir(fsys, <<NameGit, NameObjects>>)
    /\ IsDir(fsys, <<NameGit, NameRefs, NameHeads>>)
    /\ IsDir(fsys, <<NameGit, NameRefs, NameTags>>)
    /\ IsFile(fsys, <<NameGit, NameConfig>>)
    /\ LET ini == Ini_load_from_file(fsys, <<NameGit, NameConfig>>)
       IN  /\ ini.ok
           /\ Props_get(Ini_section(ini.ini, StrCore).props, StrVersionKey)
                 = [found |-> TRUE, val |-> <<48>>]
    /\ IsFile(fsys, <<NameGit, NameDescription>>)
    /\ IsFile(fsys, <<NameGit, NameHEAD>>)
    /\ fsys[<<NameGit, NameHEAD>>].data = TextHead \o <<LF>>

\* C10: create_at returns Ok only when the path is absent or a directory whose
\* .git is absent or empty; then the metadata directory holds branches/,
\* objects/, refs/heads/, refs/tags/, a config with core.repositoryformatversion
\* = 0, a description and a HEAD holding "ref: refs/heads/main", and a following
\* Repository::new succeeds; on a non-empty .git create_at returns an error.
C10_CreateThenOpen ==
    /\ cret = "Ok" => Creatable(fs0) /\ Layout(fs)
    /\ (cret = "Ok" /\ nret # "None") => nret = "Ok"
    /\ (cret # "None" /\ IsDir(fs0, GitDir) /\ Children(fs0, GitDir) # {}) =>
          cret = "NotEmpty" /\ fs = fs0

C10_Witness ==
    /\ pc = "opened"
    /\ fs0 = One(<<>>, Dir) @@ One(GitDir, Dir)
    /\ cret = "Ok"
    /\ nret = "Ok"
    /\ Layout(fs)

(***************************************************************************)
(* The object store of a repository made by create_at, which other writers *)
(* of loose objects (git itself) share.                                    *)
(***************************************************************************)
\* bytes of the contents of stored blobs
StoreBytes == {NUL, 97}

StoreBlobs == {Blob(c) : c \in SeqsUpTo(StoreBytes, MaxStoreContent)}

StoreObjects == StoreBlobs \cup {Commit}

\* the identity of an object: the digest of its canonical bytes
ObjectId(o) == HexOf(Sha1_finalize(CanonicalBytes(o)))

ObjectPath(o) == Repository_path(sha1_to_object(ObjectId(o)))

\* the object files of the store
ObjectFiles(fsys) ==
    {p \in DOMAIN fsys : Len(p) = 4 /\ p[2] = NameObjects /\ fsys[p].kind = "file"}

StoreInit ==
    /\ pc = "store"
    /\ obj \in StoreObjects
    /\ enc = NoEnc /\ zret = NoZret /\ digest = NoDigest
    /\ delivered = NoStream /\ result = NoResult
    /\ fs = Repository_create_at(Nothing).fs
    /\ fs0 = fs
    /\ sret = NoDigest /\ existed = FALSE /\ savers = NoSavers
    /\ CodecIdle /\ RepoIdle /\ TeeIdle

\* obj.sha1()
Sha1 ==
    /\ pc = "store" /\ digest = NoDigest
    /\ digest' = sha1(obj)
    /\ UNCHANGED <<pc, obj, enc, zret, delivered, result>>
    /\ UNCHANGED <<codecVars, fsVars, repoVars, storeVars, teeVars>>

\* obj.serialize_zlib()
StoreSerializeZlib ==
    /\ pc = "store" /\ zret = NoZret
    /\ enc' = serialize_with_header(obj, Sink("zlib"))
    /\ zret' = serialize_zlib(obj)
    /\ UNCHANGED <<pc, obj, digest, delivered, result>>
    /\ UNCHANGED <<codecVars, fsVars, repoVars, storeVars, teeVars>>

\* obj.save(&repo)
Save ==
    /\ pc = "store"
    /\ LET r == save(obj, fs)
       IN  /\ Cardinality(ObjectFiles(r.fs)) <= MaxFiles
           /\ fs' = r.fs
           /\ sret' = r.ret
           /\ existed' = r.existed
    /\ UNCHANGED <<pc, objVars, fs0, savers, codecVars, repoVars, teeVars>>

\* the saved object is read back: repo.file(path, read) and deserialize_zlib_read
ReadBack ==
    /\ pc = "store" /\ sret.kind = "Ok"
    /\ \E strict \in BOOLEAN : result' = read_object(fs, sret.hash, strict)
    /\ UNCHANGED <<pc, obj, enc, zret, digest, delivered>>
    /\ UNCHANGED <<codecVars, fsVars, repoVars, storeVars, teeVars>>

\* another writer of the store adds the loose object of some blob, deflated its
\* own way; it leaves alone an object that is there
OtherWriter ==
    /\ pc = "store"
    /\ \E o \in StoreBlobs, block \in BlockSizes :
          LET made == create_dir_all(fs, Parent(ObjectPath(o)))
          IN  /\ ~Exists(fs, ObjectPath(o))
              /\ Cardinality(ObjectFiles(fs)) < MaxFiles
              /\ fs' = One(ObjectPath(o), File(ZlibStream(CanonicalBytes(o), block)))
                       @@ made.fs
    /\ UNCHANGED <<pc, objVars, fs0, codecVars, repoVars, storeVars, teeVars>>

\* the caller turns to another object
NextObject ==
    /\ pc = "store"
    /\ obj' \in StoreObjects \ {obj}
    /\ enc' = NoEnc /\ zret' = NoZret /\ digest' = NoDigest
    /\ delivered' = NoStream /\ result' = NoResult
    /\ sret' = NoDigest /\ existed' = FALSE
    /\ UNCHANGED <<pc, savers, codecVars, fsVars, repoVars, teeVars>>

StoreNext ==
    \/ Sha1
    \/ StoreSerializeZlib
    \/ Save
    \/ ReadBack
    \/ OtherWriter
    \/ NextObject

SpecStore == StoreInit /\ [][StoreNext]_vars

\* C2: the digests sha1(), serialize_zlib() and save() return for an object are
\* the same value, the hash of "<type> <len>\0<content>" with <len> the byte
\* length of the content; the bytes fed to the hasher and the bytes fed to the
\* sink are those bytes, header included.
C2_DigestConsistent ==
    /\ enc.kind = "Ok" =>
          /\ enc.sink.buf = CanonicalBytes(obj)
          /\ enc.hashed = enc.sink.buf
          /\ enc.hash = HexOf(Sha1_finalize(enc.sink.buf))
    /\ zret.kind = "Ok" =>
          /\ zret.hash = enc.hash
          /\ InflateStream(zret.data) = [out |-> CanonicalBytes(obj), end |-> "eof"]
    /\ digest.kind = "Ok" => digest.hash = ObjectId(obj)
    /\ sret.kind = "Ok" => sret.hash = ObjectId(obj)
    /\ (digest.kind = "Ok" /\ zret.kind = "Ok") => digest.hash = zret.hash
    /\ (sret.kind = "Ok" /\ zret.kind = "Ok") => sret.hash = zret.hash

C2_Witness ==
    /\ obj = Blob(<<NUL>>)
    /\ digest.kind = "Ok" /\ zret.kind = "Ok" /\ sret.kind = "Ok"
    /\ digest.hash = sret.hash
    /\ Len(digest.hash) = 2 * DigestBytes

\* C6: after save(obj) returns Ok(digest), the file at the path of digest holds
\* exactly the bytes serialize_zlib(obj) returns and nothing else, whatever the
\* path held before; reading it back gives an object equal to obj.
C6_SavedFileExact ==
    sret.kind = "Ok" =>
        /\ IsFile(fs, Repository_path(sha1_to_object(sret.hash)))
        /\ fs[Repository_path(sha1_to_object(sret.hash))].data = serialize_zlib(obj).data
        /\ result.kind # "None" => result = Ok(obj)

\* C7: a file that exists at the path of a digest never changes again, and save
\* never opens an object file that exists to write into it.
C7_Immutable ==
    [][ /\ \A p \in ObjectFiles(fs) : p \in ObjectFiles(fs') /\ fs'[p] = fs[p]
        /\ ~existed' ]_vars

(***************************************************************************)
(* A SplitWrite over two writers that may accept part of a buffer or fail. *)
(***************************************************************************)
\* the buffers handed to the tee
TeeBufs == {<<97>>, <<97, 98>>}

TeeInit ==
    /\ pc = "tee"
    /\ tw = [a |-> Sink("any"), b |-> Sink("any")]
    /\ tlast = NoCall /\ tok = TRUE /\ tn = 0
    /\ ObjIdle /\ CodecIdle /\ FsIdle /\ RepoIdle /\ StoreIdle

\* tee.write(buf): each sink accepts some of the bytes, or fails
TeeWrite ==
    /\ pc = "tee" /\ tn < MaxCalls
    /\ \E buf \in TeeBufs :
       \E ra \in {IoErr} \cup 0..Len(buf), rb \in {IoErr} \cup 0..Len(buf) :
          LET r == SplitWrite_write(tw, buf, ra, rb)
          IN  /\ tw' = [a |-> r.a, b |-> r.b]
              /\ tlast' = [op |-> "write", buf |-> buf, ra |-> ra, rb |-> rb,
                           ret |-> r.ret, n |-> r.n, calls |-> r.calls]
              /\ tok' = (tok /\ r.ret = "Ok")
    /\ tn' = tn + 1
    /\ UNCHANGED <<pc, objVars, codecVars, fsVars, repoVars, storeVars>>

\* tee.write_all(buf): each sink takes all the bytes, or fails after some
TeeWriteAll ==
    /\ pc = "tee" /\ tn < MaxCalls
    /\ \E buf \in TeeBufs :
       \E ra \in 0..Len(buf), rb \in 0..Len(buf) :
          LET r == SplitWrite_write_all(tw, buf, ra, rb)
          IN  /\ tw' = [a |-> r.a, b |-> r.b]
              /\ tlast' = [op |-> "write_all", buf |-> buf, ra |-> ra, rb |-> rb,
                           ret |-> r.ret, n |-> r.n, calls |-> r.calls]
              /\ tok' = (tok /\ r.ret = "Ok")
    /\ tn' = tn + 1
    /\ UNCHANGED <<pc, objVars, codecVars, fsVars, repoVars, storeVars>>

TeeNext ==
    \/ TeeWrite
    \/ TeeWriteAll

SpecTee == TeeInit /\ [][TeeNext]_vars

\* the first sink failed in the last call
FirstSinkFailed ==
    \/ tlast.op = "write" /\ tlast.ra = IoErr
    \/ tlast.op = "write_all" /\ tlast.ra < Len(tlast.buf)

\* what C8 says of a write that returns Ok(n) and of sinks that differ
TeeCounts ==
    /\ (tlast.op = "write" /\ tlast.ret = "Ok") =>
          /\ tlast.ra = tlast.n /\ tlast.rb = tlast.n
          /\ tlast.calls = <<"a", "b">>
    /\ (tlast.op = "write" /\ tlast.ra # IoErr /\ tlast.rb # IoErr
            /\ tlast.ra # tlast.rb) => tlast.ret = "Err"
    /\ (tlast.op = "write_all" /\ tlast.ret = "Ok") =>
          tlast.ra = Len(tlast.buf) /\ tlast.rb = Len(tlast.buf)
    /\ tok => tw.a.buf = tw.b.buf

\* C8 as claimed: every write and write_all call is forwarded to both sinks,
\* first sink then second; write returns Ok(n) only if both sinks accepted n
\* bytes and an error when they accepted different counts; after calls that all
\* returned success both sinks hold the same bytes.
C8_Tee_Original ==
    /\ tlast.op # "none" => tlast.calls = <<"a", "b">>
    /\ TeeCounts

\* C8: every write and write_all call is forwarded to the first sink and, unless
\* the first sink fails, then to the second; write returns Ok(n) only if both
\* sinks accepted n bytes and an error when they accepted different counts; after
\* calls that all returned success both sinks hold the same bytes.
C8_Tee ==
    /\ tlast.op # "none" =>
          tlast.calls = IF FirstSinkFailed THEN <<"a">> ELSE <<"a", "b">>
    /\ TeeCounts

C8_Witness ==
    /\ tn = 2 /\ tok
    /\ tlast.op = "write" /\ tlast.n = 1 /\ tlast.buf = <<97, 98>>
    /\ tw.a.buf = <<97, 98, 97>>
    /\ tw.b.buf = tw.a.buf

(***************************************************************************)
(* Several callers of save on one store at the same time.  A call is three *)
(* steps that other callers, readers and a crash can come between:         *)
(* serialize_zlib, repo.file(..) and the write calls of file.write_all.    *)
(***************************************************************************)
\* the file save opens: repo.file(path, create + write, true) at the path of the
\* digest serialize_zlib returned
save_open(fsys, z) == Repository_file(fsys, sha1_to_object(z.hash), OptsSave, TRUE)

\* a write that reaches the file only when the last byte is handed over
File_write_Deferred(fsys, p, off, data, n) ==
    IF off + n = Len(data) THEN [fsys EXCEPT ![p] = File(data)] ELSE fsys

\* one write call of file.write_all(&data): the file takes n bytes of data at
\* the offset of the open file
File_write(fsys, p, off, data, n) ==
    [fsys EXCEPT ![p] = File(WriteAt(fsys[p].data, off, SubSeq(data, off + 1, off + n)))]

\* the blobs the callers save: one without content, one with
SaveBlobs == {Blob(<<>>), Blob(<<97>>)}

\* the store with the loose object of o in it, written by another writer
StoreWith(o, block) ==
    LET base == Repository_create_at(Nothing).fs
        made == create_dir_all(base, Parent(ObjectPath(o)))
    IN  One(ObjectPath(o), File(ZlibStream(CanonicalBytes(o), block))) @@ made.fs

SaveInit ==
    /\ pc = "saving"
    /\ obj \in SaveBlobs
    /\ enc = NoEnc /\ zret = NoZret /\ digest = NoDigest
    /\ delivered = NoStream /\ result = NoResult
    /\ fs \in {Repository_create_at(Nothing).fs, StoreWith(obj, 1)}
    /\ fs0 = fs
    /\ sret = NoDigest /\ existed = FALSE /\ savers = NoSavers
    /\ CodecIdle /\ RepoIdle /\ TeeIdle

\* let (sha1, data) = self.serialize_zlib()
SaveSerialize(s) ==
    /\ pc = "saving" /\ savers[s].at = "idle"
    /\ savers' = [savers EXCEPT ![s] = [at |-> "serialized", off |-> 0,
                                        z |-> serialize_zlib(obj)]]
    /\ UNCHANGED <<pc, objVars, sret, existed, codecVars, fsVars, repoVars, teeVars>>

\* repo.file(path, OpenOptions::new().create(true).write(true), true)
SaveOpen(s) ==
    /\ pc = "saving" /\ savers[s].at = "serialized"
    /\ LET r == save_open(fs, savers[s].z)
       IN  /\ fs' = r.fs
           /\ savers' = [savers EXCEPT ![s].at = IF r.ok THEN "writing" ELSE "failed"]
    /\ UNCHANGED <<pc, objVars, sret, existed, fs0, codecVars, repoVars, teeVars>>

\* one write call of file.write_all(&data); after the last one save returns
SaveWrite(s) ==
    /\ pc = "saving" /\ savers[s].at = "writing"
    /\ LET me == savers[s]
           path == Repository_path(sha1_to_object(me.z.hash))
       IN  \E n \in 1..(Len(me.z.data) - me.off) :
              /\ fs' = File_write(fs, path, me.off, me.z.data, n)
              /\ savers' = [savers EXCEPT ![s].off = me.off + n,
                                          ![s].at = IF me.off + n = Len(me.z.data)
                                                    THEN "done" ELSE "writing"]
    /\ UNCHANGED <<pc, objVars, sret, existed, fs0, codecVars, repoVars, teeVars>>

\* the process of a caller dies between two write calls
SaveCrash(s) ==
    /\ pc = "saving" /\ savers[s].at = "writing"
    /\ savers' = [savers EXCEPT ![s].at = "crashed"]
    /\ UNCHANGED <<pc, objVars, sret, existed, codecVars, fsVars, repoVars, teeVars>>

\* a reader opens the object file and decodes it
CatFile ==
    /\ pc = "saving" /\ result = NoResult
    /\ \E strict \in BOOLEAN : result' = read_object(fs, sha1(obj).hash, strict)
    /\ UNCHANGED <<pc, obj, enc, zret, digest, delivered>>
    /\ UNCHANGED <<codecVars, fsVars, repoVars, storeVars, teeVars>>

SaveNext ==
    \/ \E s \in Savers : SaveSerialize(s)
    \/ \E s \in Savers : SaveOpen(s)
    \/ \E s \in Savers : SaveWrite(s)
    \/ \E s \in Savers : SaveCrash(s)
    \/ CatFile

SpecSave == SaveInit /\ [][SaveNext]_vars

\* the callers that have opened the object file
Opened == {s \in Savers : savers[s].at \in {"writing", "done", "crashed"}}

RECURSIVE MaxOff(_)
\* the furthest offset a set of callers has written to
MaxOff(S) ==
    IF S = {} THEN 0
    ELSE LET s == CHOOSE x \in S : TRUE
             m == MaxOff(S \ {s})
         IN  IF savers[s].off > m THEN savers[s].off ELSE m

\* what the object file held when the run began (nothing if it was not there)
BytesBefore ==
    IF Exists(fs0, ObjectPath(obj)) THEN fs0[ObjectPath(obj)].data ELSE <<>>

\* C11: save writes straight into the path of the digest, with no lock and no
\* temporary file: the only object file is the one at that path, it is there as
\* soon as one caller has opened it, and at every moment it holds what was there
\* before with the first bytes of the encoding written over it, as many as the
\* furthest caller has written; so while no caller has written all of them, or
\* when the callers that began have crashed, the file is a cut or partly
\* overwritten encoding that a reader can open.
C11_NonAtomic ==
    LET data == serialize_zlib(obj).data
    IN  /\ ObjectFiles(fs) \subseteq {ObjectPath(obj)}
        /\ Opened = {} => fs = fs0
        /\ Opened # {} =>
              /\ IsFile(fs, ObjectPath(obj))
              /\ fs[ObjectPath(obj)].data
                    = WriteAt(BytesBefore, 0, Take(data, MaxOff(Opened)))

\* one caller crashed part-way while the other was writing too, the file is a
\* proper prefix of the encoding, and a reader that opened it got an error
C11_Witness ==
    LET data == serialize_zlib(obj).data
    IN  /\ savers["s1"].at = "crashed" /\ savers["s1"].off > 0
        /\ savers["s2"].at = "writing" /\ savers["s2"].off > 0
        /\ savers["s2"].off < savers["s1"].off
        /\ IsFile(fs, ObjectPath(obj))
        /\ Len(fs[ObjectPath(obj)].data) < Len(data)
        /\ fs[ObjectPath(obj)].data = Take(data, savers["s1"].off)
        /\ result.kind = "Err"

====
